---------------------------- MODULE Spec2Model ----------------------------
(***************************************************************************)
(* A model of metric.py: the evaluation metrics computed over one recorded *)
(* multi-turn transcript (df).  Every metric is a pure function of df; the *)
(* state machine holds the transcript, the metric called last and what     *)
(* that call produced (a value or a fault).                                *)
(*                                                                         *)
(* Python values are modelled as follows.                                  *)
(*   dict / record     a TLA+ record; a missing key is a missing field     *)
(*   list              a sequence (1-based; Python index i is i + 1 here)  *)
(*   str (messages)    a sequence of characters                            *)
(*   float             a quotient [num, den]: num counts units of 2^-53    *)
(*                     (the spacing of float64 in [1/2, 1)), den is the    *)
(*                     integer divisor of the final division               *)
(*   exception         a Fault record naming the exception type            *)
(***************************************************************************)
EXTENDS Integers, Sequences, FiniteSets, TLC

VARIABLES df, metric, result

vars == <<df, metric, result>>

(***************************************************************************)
(* Bounds of the model.                                                    *)
(***************************************************************************)
MaxTurns == 2

MaxSteps == 2

MaxHead == 3

MaxTail == 38

(***************************************************************************)
(* Module constants of metric.py.                                          *)
(***************************************************************************)
API_LIST ==
  <<"GorillaFileSystem", "MathAPI", "MessageAPI", "TwitterAPI",
    "TicketAPI", "TradingBot", "TravelAPI", "VehicleControlAPI">>

\* A str is a sequence of characters; the three characters of the phrase
\* list beyond ASCII are written by their code points.
APOLOGETIC_SUBSTRING ==
  << <<"s", "o", "r", "r", "y">>,
     <<"a", "p", "o", "l", "o", "g", "i", "z", "e">>,
     <<"c", "a", "n", "n", "o", "t">>,
     <<"c", "o", "u", "l", "d", " ", "n", "o", "t">>,
     <<"c", "o", "u", "l", "d", "n", "'", "t">>,
     <<"c", "a", "n", "U+00E2", "U+20AC", "U+2122", "t">>,
     <<"u", "n", "a", "b", "l", "e">>,
     <<"u", "n", "f", "o", "r", "t", "u", "n", "a", "t", "e", "l", "y">>,
     <<"n", "o", "t", " ", "s", "u", "c", "c", "e", "s", "s", "f", "u", "l">>,
     <<"l", "a", "c", "k", "s">> >>

\* The error types the three flag metrics look for.
FORCE_TERMINATED ==
  <<"m", "u", "l", "t", "i", "_", "t", "u", "r", "n", ":", "f", "o", "r",
    "c", "e", "_", "t", "e", "r", "m", "i", "n", "a", "t", "e", "d">>

STATE_MISMATCH ==
  <<"m", "u", "l", "t", "i", "_", "t", "u", "r", "n", ":", "i", "n", "s",
    "t", "a", "n", "c", "e", "_", "s", "t", "a", "t", "e", "_", "m", "i",
    "s", "m", "a", "t", "c", "h">>

RESPONSE_MISMATCH ==
  <<"m", "u", "l", "t", "i", "_", "t", "u", "r", "n", ":", "e", "x", "e",
    "c", "u", "t", "i", "o", "n", "_", "r", "e", "s", "p", "o", "n", "s",
    "e", "_", "m", "i", "s", "m", "a", "t", "c", "h">>

(***************************************************************************)
(* Results of a call.                                                      *)
(***************************************************************************)
\* A returned float: a quotient, float("inf") or nan.
Value(v) == [kind |-> "value", value |-> v]

\* A returned bool.
BoolValue(b) == [kind |-> "value", bool |-> b]

\* A returned int.
IntValue(k) == [kind |-> "value", int |-> k]

\* A returned pandas Series, by its values.
SeriesValue(values) == [kind |-> "value", series |-> values]

Fault(e) == [kind |-> "fault", error |-> e]

NaN == "NaN"

PyTrue == "True"

PyFalse == "False"

Min(a, b) == IF a <= b THEN a ELSE b

(***************************************************************************)
(* float64 arithmetic on the values the metrics produce.  A float x >= 0   *)
(* is held as the integer x * 2^53, split in two limbs <<hi, lo>> with     *)
(* x * 2^53 = hi * Base + lo, so that no intermediate exceeds 32 bits.     *)
(***************************************************************************)
Base == 2^30

OneHi == 2^23

Zero == <<0, 0>>

One == <<OneHi, 0>>

FromInt(k) == <<k * OneHi, 0>>

Less(a, b) == a[1] < b[1] \/ (a[1] = b[1] /\ a[2] < b[2])

Leq(a, b) == a = b \/ Less(a, b)

RECURSIVE Pow2Below(_, _)
\* The spacing (in units of 2^-53) of float64 around a value whose high limb
\* is hi: 1 below 1.0, 2 in [1, 2), 4 in [2, 4), ...
Pow2Below(hi, ulp) ==
  IF hi < OneHi THEN ulp ELSE Pow2Below(hi \div 2, ulp * 2)

Ulp(a) == Pow2Below(a[1], 1)

\* <<hi, lo>> with a low limb that may have reached Base, carried.
Carry(hi, lo) == IF lo >= Base THEN <<hi + 1, lo - Base>> ELSE <<hi, lo>>

\* The exact value a rounded to the multiple of u nearest to it, the even
\* multiple when it lies half way between two.
RoundTo(a, u) ==
  LET r  == a[2] % u
      up == IF 2 * r > u THEN TRUE
            ELSE IF 2 * r < u THEN FALSE
            ELSE ((a[2] \div u) % 2) = 1
  IN  Carry(a[1], IF up THEN a[2] - r + u ELSE a[2] - r)

\* Round the exact value a to the nearest float64, ties to even.
RoundEven(a) == RoundTo(a, Ulp(a))

\* a + b in float64: the exact sum, rounded once.
FloatAdd(a, b) == RoundEven(Carry(a[1] + b[1], a[2] + b[2]))

\* The float64 values 1 - np.exp(-d) for d = 1 .. 37, in units of 2^-53.
OneMinusExpTable ==
  << <<5302611, 619284580>>, <<7253333, 386932621>>, <<7970963, 858985717>>,
     <<8234965, 306116120>>, <<8332086, 4187481>>, <<8367814, 772729899>>,
     <<8380958, 622393046>>, <<8385793, 1004502523>>, <<8387572, 819834267>>,
     <<8388227, 169421422>>, <<8388467, 962050273>>, <<8388556, 492429918>>,
     <<8388589, 41857306>>, <<8388601, 26447909>>, <<8388605, 465902319>>,
     <<8388607, 60115082>>, <<8388607, 700849385>>, <<8388607, 936562362>>,
     <<8388607, 1023276320>>, <<8388607, 1055176603>>, <<8388607, 1066912061>>,
     <<8388607, 1071229295>>, <<8388607, 1072817516>>, <<8388607, 1073401790>>,
     <<8388607, 1073616733>>, <<8388607, 1073695805>>, <<8388607, 1073724895>>,
     <<8388607, 1073735596>>, <<8388607, 1073739533>>, <<8388607, 1073740981>>,
     <<8388607, 1073741514>>, <<8388607, 1073741710>>, <<8388607, 1073741782>>,
     <<8388607, 1073741809>>, <<8388607, 1073741818>>, <<8388607, 1073741822>>,
     <<8388607, 1073741823>> >>

\* 1 - np.exp(-d) for an integer d >= 1.  From d = 38 on np.exp(-d) is below
\* half the spacing of float64 under 1.0 and the difference rounds to 1.0.
OneMinusExpNeg(d) ==
  IF d <= Len(OneMinusExpTable) THEN OneMinusExpTable[d] ELSE One

\* score / n of Python, n a positive integer: the quotient is kept exact.
Quot(num, n) == [inf |-> FALSE, num |-> num, den |-> n]

\* a / 2, for a value a that is an even count of units.
Half(a) == <<a[1] \div 2, (a[1] % 2) * (Base \div 2) + a[2] \div 2>>

\* float("nan")
FloatNaN == [nan |-> TRUE]

\* float("inf")
Inf == [inf |-> TRUE, num |-> Zero, den |-> 1]

\* The division guarded against a zero count.
DivideGuarded(num, n) == Value(Quot(num, IF n = 0 THEN 1 ELSE n))

Divide(num, n) ==
  IF n = 0 THEN Fault("ZeroDivisionError") ELSE Value(Quot(num, n))

(***************************************************************************)
(* The transcripts the metrics are applied to.                             *)
(***************************************************************************)
ApiState(name, c) == [class_name |-> name, content |-> c]

M0 == ApiState("MathAPI", 0)

M1 == ApiState("MathAPI", 1)

T0 == ApiState("TwitterAPI", 0)

T1 == ApiState("TwitterAPI", 1)

\* End-of-turn and ground-truth snapshots: per-API records in order.
SnapshotPool ==
  { <<>>, <<M0>>, <<T0>>, <<M0, T0>>, <<M0, T1>> }

Text(chars) == [kind |-> "str", chars |-> chars]

None == [kind |-> "None"]

Done == Text(<<"D", "o", "n", "e", ".">>)

Sorry == Text(<<"S", "o", "r", "r", "y", ".">>)

CanNot == Text(<<"I", " ", "c", "a", "n", "'", "t", ".">>)

\* The closing messages of a turn: assistant_response.content.
ContentPool == { None, Sorry, CanNot, Done }

\* The messages of the steps before the closing one.
EarlierContentPool == { Sorry }

\* The content strings of tool results.
ErrorJson == "{\"error\": \"timeout\"}"

ResultJson == "{\"result\": 3}"

NestedJson == "{\"result\": {\"error\": 1}}"

ArrayJson == "[\"error\"]"

NotJson == "not json"

ToolResult(content) == [content |-> content]

\* The tool_response lists of a step that called tools.
ToolResponsePool ==
  { <<ToolResult(ErrorJson)>>,
    <<ToolResult(NotJson), ToolResult(ResultJson), ToolResult(NestedJson)>>,
    <<ToolResult(ErrorJson), ToolResult(ArrayJson), ToolResult(ErrorJson)>> }

\* A step without a tool call: a plain assistant message.
PlainStep(content) ==
  [assistant_response |-> [content |-> content],
   tool_response |-> <<>>,
   num_tools |-> 0]

\* A step that called tools: it carries handler_response, and the results.
ToolStep(content, results) ==
  [assistant_response |-> [content |-> content],
   handler_response |-> "decoded",
   tool_response |-> results,
   num_tools |-> Len(results)]

Turn(steps, eots) ==
  [step_responses |-> steps,
   end_of_turn_state |-> eots,
   num_steps |-> Len(steps)]

Transcript(turns, gt) ==
  [turn_responses |-> turns, ground_truth_log |-> gt, error_type |-> <<>>]

SeqsOfLen(S, n) == [1..n -> S]

\* The shapes of ground_truth_log over the per-turn snapshots g of n turns.
\* ground_truth_log[0], the state before the conversation, is read by no
\* metric and is left empty.  The log has one entry per turn plus one in the
\* well-formed case; the other two shapes carry one more or lack the last.
LogShapes(g, n) ==
  { <<<<>>>> \o g, <<<<>>>> \o g \o <<<<>>>>, SubSeq(<<<<>>>> \o g, 1, n) }

\* A transcript of the turns whose end-of-turn states are e[1], e[2], ...
StateTranscript(e, log) ==
  Transcript([i \in DOMAIN e |-> Turn(<<PlainStep(Done)>>, e[i])], log)

\* df is a transcript of at most MaxTurns turns with snapshots of the pool.
StateTranscripts ==
  \E n \in 0..MaxTurns :
    \E e \in SeqsOfLen(SnapshotPool, n), g \in SeqsOfLen(SnapshotPool, n) :
      \E log \in LogShapes(g, n) : df = StateTranscript(e, log)

\* df is a well-formed transcript of one API: a head of MaxHead turns, each
\* of which matches the ground truth or not, and before or after it a run
\* of up to MaxTail turns that all match.
LongTranscripts ==
  \E h \in [1..MaxHead -> BOOLEAN], t \in 0..MaxTail, headFirst \in BOOLEAN :
    LET head == [i \in 1..MaxHead |-> IF h[i] THEN <<M0>> ELSE <<M1>>]
        tail == [i \in 1..t |-> <<M0>>]
        e == IF headFirst THEN head \o tail ELSE tail \o head
    IN  df = StateTranscript(e, <<<<>>>> \o [i \in 1..Len(e) |-> <<M0>>])

\* A well-formed transcript of the turns whose steps are steps[1], steps[2],
\* ..., with no API state.
StepTranscript(steps) ==
  Transcript([i \in DOMAIN steps |-> Turn(steps[i], <<>>)],
             [i \in 1..(Len(steps) + 1) |-> <<>>])

\* df is a transcript whose turns differ in their messages: up to MaxSteps
\* steps a turn, the last of them the closing one.
MessageTranscripts ==
  \E n \in 0..MaxTurns :
    \E k \in [1..n -> 1..MaxSteps] :
      \E early \in [1..n -> [1..(MaxSteps - 1) -> EarlierContentPool]],
         last \in [1..n -> ContentPool] :
        df = StepTranscript(
               [i \in 1..n |->
                  [j \in 1..k[i] |->
                     PlainStep(IF j = k[i] THEN last[i] ELSE early[i][j])]])

\* df is a transcript whose steps differ in whether they called a tool.
CallTranscripts ==
  \E n \in 0..MaxTurns :
    \E k \in [1..n -> 1..MaxSteps] :
      \E called \in [1..n -> [1..MaxSteps -> BOOLEAN]] :
        df = StepTranscript(
               [i \in 1..n |->
                  [j \in 1..k[i] |->
                     IF called[i][j]
                       THEN ToolStep(Done, <<ToolResult(ResultJson)>>)
                       ELSE PlainStep(Done)]])

\* df is a transcript whose turns differ in their tool results: tool steps,
\* then the closing step.
ToolTranscripts ==
  \E n \in 0..MaxTurns :
    \E k \in [1..n -> 1..MaxSteps] :
      \E results \in [1..n -> [1..(MaxSteps - 1) -> ToolResponsePool]] :
        df = StepTranscript(
               [i \in 1..n |->
                  [j \in 1..k[i] |->
                     IF j = k[i] THEN PlainStep(Done)
                     ELSE ToolStep(Done, results[i][j])]])

\* The turns of the mixed transcripts: messages, tool calls and states.
TurnPool ==
  { Turn(<<PlainStep(Done)>>, <<M0>>),
    Turn(<<ToolStep(Done, <<ToolResult(ErrorJson)>>), PlainStep(Sorry)>>,
         <<M1>>),
    Turn(<<PlainStep(Done),
           ToolStep(Done, <<ToolResult(ResultJson), ToolResult(NotJson)>>),
           PlainStep(None)>>,
         <<M0, T0>>),
    Turn(<<ToolStep(Done, <<ToolResult(ErrorJson), ToolResult(ArrayJson),
                            ToolResult(ErrorJson)>>),
           ToolStep(Done, <<>>),
           PlainStep(CanNot)>>,
         <<M0>>) }

\* The ground-truth snapshots of the mixed transcripts.
TruthPool == { <<M0>>, <<M0, T0>> }

\* df['error_type']: a str.
ErrorTypePool ==
  { <<>>, FORCE_TERMINATED, STATE_MISMATCH, RESPONSE_MISMATCH }

\* df is a well-formed transcript of turns of the pool.
MixedTranscripts ==
  \E n \in 0..MaxTurns :
    \E turns \in SeqsOfLen(TurnPool, n), g \in SeqsOfLen(TruthPool, n) :
      \E e \in ErrorTypePool :
        df = [Transcript(turns, <<<<>>>> \o g) EXCEPT !.error_type = e]

(***************************************************************************)
(* for turn_idx in range(len(df['turn_responses'])): a loop is modelled by *)
(* its body, which maps the loop's variables st before the iteration on    *)
(* turn i (turn_idx = i - 1) to those after it.  st.raised names the       *)
(* exception that left the loop ("" while none has) and the remaining      *)
(* iterations are then skipped.  ForTurns(loop, d, lo, hi, st), defined    *)
(* after the bodies, applies the body of the function named loop to the    *)
(* turns lo .. hi in order.                                                *)
(***************************************************************************)
RECURSIVE ForTurns(_, _, _, _, _)

ForAllTurns(loop, d, st) == ForTurns(loop, d, 1, Len(d.turn_responses), st)

(***************************************************************************)
(* average_num_steps and average_num_tools                                 *)
(***************************************************************************)
\* The loop's body: score is the sum of x["num_steps"].
NumStepsStep(d, i, st) ==
  [st EXCEPT !.score = @ + d.turn_responses[i].num_steps]

\* Series.mean(): nan of an empty Series, else the sum over the count.
SeriesMean(d, st) ==
  IF Len(d.turn_responses) = 0 THEN Value(FloatNaN)
  ELSE Value(Quot(FromInt(st.score), Len(d.turn_responses)))

average_num_steps(d) ==
  SeriesMean(d, ForAllTurns("average_num_steps", d,
                            [raised |-> "", score |-> 0]))

\* [step_response["num_tools"] for step_response in step_responses[:-1]]
TurnNumTools(turn) ==
  [j \in 1..(Len(turn.step_responses) - 1) |-> turn.step_responses[j].num_tools]

\* np.mean of a list of one or of two ints, which is exact.
MeanOfInts(values) ==
  IF Len(values) = 1 THEN FromInt(values[1])
  ELSE Half(FromInt(values[1] + values[2]))

\* The loop's body: score is the sum of num_tools, count its length.
NumToolsStep(d, i, st) ==
  IF Len(TurnNumTools(d.turn_responses[i])) > 0
    THEN [st EXCEPT
            !.score = FloatAdd(@, MeanOfInts(
                                    TurnNumTools(d.turn_responses[i]))),
            !.count = @ + 1]
    ELSE st

\* np.mean(num_tools): nan of an empty list, else the sum over the count.
NumToolsResult(st) ==
  IF st.count = 0 THEN Value(FloatNaN) ELSE Value(Quot(st.score, st.count))

average_num_tools(d) ==
  NumToolsResult(ForAllTurns("average_num_tools", d,
                             [raised |-> "", score |-> Zero, count |-> 0]))

(***************************************************************************)
(* apologetic and apologetic_rate                                          *)
(***************************************************************************)
\* The characters that lower() changes, among those of the model's strings.
ToLower ==
  [A |-> "a", B |-> "b", C |-> "c", D |-> "d", E |-> "e", F |-> "f",
   G |-> "g", H |-> "h", I |-> "i", J |-> "j", K |-> "k", L |-> "l",
   M |-> "m", N |-> "n", O |-> "o", P |-> "p", Q |-> "q", R |-> "r",
   S |-> "s", T |-> "t", U |-> "u", V |-> "v", W |-> "w", X |-> "x",
   Y |-> "y", Z |-> "z"]

LowerChar(c) == IF c \in DOMAIN ToLower THEN ToLower[c] ELSE c

RECURSIVE Lower(_)
\* s.lower()
Lower(chars) ==
  IF chars = <<>> THEN <<>>
  ELSE <<LowerChar(Head(chars))>> \o Lower(Tail(chars))

\* phrase in s
Contains(chars, phrase) ==
  \E k \in 0..(Len(chars) - Len(phrase)) :
    \A m \in 1..Len(phrase) : chars[k + m] = phrase[m]

\* str(x): of None it is the four letters "None".
Str(x) == IF x.kind = "None" THEN Text(<<"N", "o", "n", "e">>) ELSE x

\* turn_summary = str(turn_response["step_responses"][-1]
\*                    ['assistant_response']['content'])
TurnSummary(turn) ==
  Str(turn.step_responses[Len(turn.step_responses)].assistant_response.content)

\* turn_summary is None or any([phrase.lower() in turn_summary.lower() ...])
SummaryMatches(turn_summary) ==
  \/ turn_summary.kind = "None"
  \/ \E p \in 1..Len(APOLOGETIC_SUBSTRING) :
       Contains(Lower(turn_summary.chars), Lower(APOLOGETIC_SUBSTRING[p]))

\* The loop's body: returned tells that the loop has returned True.
ApologeticStep(d, i, st) ==
  IF st.returned THEN st
  ELSE IF Len(d.turn_responses[i].step_responses) = 0
    THEN [st EXCEPT !.raised = "IndexError"]
  ELSE IF SummaryMatches(TurnSummary(d.turn_responses[i]))
    THEN [st EXCEPT !.returned = TRUE]
  ELSE st

ApologeticResult(st) ==
  IF st.raised # "" THEN Fault(st.raised)
  ELSE IF st.returned THEN BoolValue(PyTrue)
  ELSE BoolValue(PyFalse)

apologetic(d) ==
  ApologeticResult(
    ForAllTurns("apologetic", d, [raised |-> "", returned |-> FALSE]))

\* The loop's body: score is apologetic_turn_count.
ApologeticRateStep(d, i, st) ==
  IF Len(d.turn_responses[i].step_responses) = 0
    THEN [st EXCEPT !.raised = "IndexError"]
  ELSE IF SummaryMatches(TurnSummary(d.turn_responses[i]))
    THEN [st EXCEPT !.score = @ + 1]
  ELSE st

\* return count / len(turn_responses), unless the loop raised.
CountOverTurns(d, st) ==
  IF st.raised # "" THEN Fault(st.raised)
  ELSE Divide(FromInt(st.score), Len(d.turn_responses))

apologetic_rate(d) ==
  CountOverTurns(d, ForAllTurns("apologetic_rate", d,
                                [raised |-> "", score |-> 0]))

(***************************************************************************)
(* no_func_call_rate                                                       *)
(***************************************************************************)
RECURSIVE StepsBeforeCall(_, _)
\* for entry in step_responses: the entries counted from entry j on, until
\* the first one that has the key handler_response.
StepsBeforeCall(steps, j) ==
  IF j > Len(steps) THEN 0
  ELSE IF "handler_response" \in DOMAIN steps[j] THEN 0
  ELSE 1 + StepsBeforeCall(steps, j + 1)

\* The loop's body: score is no_func_call_count.
NoFuncCallStep(d, i, st) ==
  [st EXCEPT
     !.score = @ + StepsBeforeCall(d.turn_responses[i].step_responses, 1)]

no_func_call_rate(d) ==
  CountOverTurns(d, ForAllTurns("no_func_call_rate", d,
                                [raised |-> "", score |-> 0]))

(***************************************************************************)
(* num_tool_errors and num_turn_with_errors                                *)
(***************************************************************************)
\* json.loads on the content strings of the model: the parsed value's type
\* and, of an object, its keys; raised names the exception of a failed parse.
JsonLoads(text) ==
  CASE text = ErrorJson ->
         [raised |-> "", type |-> "dict", keys |-> {"error"}]
    [] text = ResultJson ->
         [raised |-> "", type |-> "dict", keys |-> {"result"}]
    [] text = NestedJson ->
         [raised |-> "", type |-> "dict", keys |-> {"result"}]
    [] text = ArrayJson ->
         [raised |-> "", type |-> "list", keys |-> {}]
    [] OTHER ->
         [raised |-> "JSONDecodeError", type |-> "", keys |-> {}]

\* "error" in parsed.keys(): only a dict has keys().
ErrorInKeys(parsed) ==
  IF parsed.raised # "" THEN [raised |-> parsed.raised, value |-> FALSE]
  ELSE IF parsed.type # "dict"
    THEN [raised |-> "AttributeError", value |-> FALSE]
  ELSE [raised |-> "", value |-> "error" \in parsed.keys]

\* "error" in json.loads(tool_response['content']).keys()
HasErrorKey(tool_response) == ErrorInKeys(JsonLoads(tool_response.content))

\* The test counting an entry whose content could not be tested.
CountsAsErrorOrRaised(test) == test.raised # "" \/ test.value

\* try: if <HasErrorKey>: num_errors += 1  except: pass
CountsAsError(test) == test.raised = "" /\ test.value

RECURSIVE ErrorsInResponses(_, _)
\* for tool_response in step['tool_response']: the increments from entry k on.
ErrorsInResponses(responses, k) ==
  IF k > Len(responses) THEN 0
  ELSE (IF CountsAsError(HasErrorKey(responses[k])) THEN 1 ELSE 0)
       + ErrorsInResponses(responses, k + 1)

RECURSIVE ErrorsInSteps(_, _)
\* for step in step_responses: the increments from step j on.
ErrorsInSteps(steps, j) ==
  IF j > Len(steps) THEN 0
  ELSE ErrorsInResponses(steps[j].tool_response, 1)
       + ErrorsInSteps(steps, j + 1)

\* The loop's body: score is num_errors.
ToolErrorsStep(d, i, st) ==
  [st EXCEPT !.score = @ + ErrorsInSteps(d.turn_responses[i].step_responses, 1)]

\* return num_errors: an int.
CountResult(st) ==
  IF st.raised # "" THEN Fault(st.raised) ELSE IntValue(st.score)

num_tool_errors(d) ==
  CountResult(ForAllTurns("num_tool_errors", d,
                          [raised |-> "", score |-> 0]))

\* has_error_in_tool_response: False when the test raised.
has_error_in_tool_response(tool_response) ==
  IF HasErrorKey(tool_response).raised # "" THEN FALSE
  ELSE HasErrorKey(tool_response).value

\* any(has_error_in_tool_response(tool_response) for step in ... for
\*     tool_response in step['tool_response'])
AnyErrorInTurn(turn) ==
  \E j \in 1..Len(turn.step_responses) :
    \E k \in 1..Len(turn.step_responses[j].tool_response) :
      has_error_in_tool_response(turn.step_responses[j].tool_response[k])

\* The loop's body: score is num_turns_with_error.
TurnWithErrorsStep(d, i, st) ==
  IF AnyErrorInTurn(d.turn_responses[i]) THEN [st EXCEPT !.score = @ + 1]
  ELSE st

num_turn_with_errors(d) ==
  CountResult(ForAllTurns("num_turn_with_errors", d,
                          [raised |-> "", score |-> 0]))

(***************************************************************************)
(* force_terminated, state_inconsistent and response_inconsistent          *)
(***************************************************************************)
\* if <error type> in df['error_type']: return True / return False
HasErrorType(d, error_type) ==
  IF Contains(d.error_type, error_type) THEN BoolValue(PyTrue)
  ELSE BoolValue(PyFalse)

force_terminated(d) == HasErrorType(d, FORCE_TERMINATED)

state_inconsistent(d) == HasErrorType(d, STATE_MISMATCH)

response_inconsistent(d) == HasErrorType(d, RESPONSE_MISMATCH)

(***************************************************************************)
(* check_api_state_mismatch                                                *)
(***************************************************************************)
Range(s) == { s[i] : i \in 1..Len(s) }

RECURSIVE MarkPairs(_, _, _, _)
\* for gt_state, turn_state in zip(gt_states, turn_states): from pair j on.
MarkPairs(state, gt_states, turn_states, j) ==
  IF j > Min(Len(gt_states), Len(turn_states)) THEN state
  ELSE MarkPairs(
         IF gt_states[j] # turn_states[j]
           THEN [state EXCEPT ![gt_states[j].class_name] = PyTrue]
           ELSE state,
         gt_states, turn_states, j + 1)

\* The body of for turn_idx, turn_response in enumerate(df['turn_responses']).
MarkTurn(d, i, st) ==
  [st EXCEPT !.state = MarkPairs(@, d.ground_truth_log[i + 1],
                                 d.turn_responses[i].end_of_turn_state, 1)]

\* api_list: the class names of the first turn's end-of-turn state.
FirstTurnApis(d) ==
  { s.class_name : s \in Range(d.turn_responses[1].end_of_turn_state) }

\* state = {api: np.nan ...}, then False for every api of api_list.
InitialApiState(api_list) ==
  [api \in Range(API_LIST) |-> IF api \in api_list THEN PyFalse ELSE NaN]

\* The state dict at the return, from the one before the length test.
FinalApiState(d, api_list, state) ==
  IF Len(d.ground_truth_log) # Len(d.turn_responses) + 1
    THEN [api \in Range(API_LIST) |->
            IF api \in api_list THEN PyTrue ELSE state[api]]
    ELSE ForAllTurns("check_api_state_mismatch", d,
                     [raised |-> "", state |-> state]).state

\* pd.Series(state.values()): the values in the order of API_LIST.
StateValues(final) == [k \in 1..Len(API_LIST) |-> final[API_LIST[k]]]

check_api_state_mismatch(d) ==
  IF Len(d.turn_responses) = 0 THEN Fault("IndexError")
  ELSE SeriesValue(StateValues(
         FinalApiState(d, FirstTurnApis(d),
                       InitialApiState(FirstTurnApis(d)))))

(***************************************************************************)
(* The positional comparison of one turn, shared by the three rates below: *)
(* zip(end_of_turn_state, ground_truth_log[turn_idx + 1]) stops at the     *)
(* shorter of the two.  Turn i here is turn_idx = i - 1 of the source.     *)
(***************************************************************************)
HasLogEntry(d, i) == i + 1 <= Len(d.ground_truth_log)

ZipAllEqual(preds, truths) ==
  \A j \in 1..Min(Len(preds), Len(truths)) : preds[j] = truths[j]

TurnMatches(d, i) ==
  ZipAllEqual(d.turn_responses[i].end_of_turn_state, d.ground_truth_log[i + 1])

(***************************************************************************)
(* task_process_rate                                                       *)
(***************************************************************************)
\* returned is the turn_idx of the turn at which the loop returned, -1
\* while it has not.
NotReturned == -1

\* The loop's body returning the one-based number of the turn.
TaskStepOneBased(d, i, st) ==
  IF st.returned # NotReturned THEN st
  ELSE IF ~HasLogEntry(d, i) THEN [st EXCEPT !.raised = "IndexError"]
  ELSE IF ~TurnMatches(d, i) THEN [st EXCEPT !.returned = i]
  ELSE st

TaskStep(d, i, st) ==
  IF st.returned # NotReturned THEN st
  ELSE IF ~HasLogEntry(d, i) THEN [st EXCEPT !.raised = "IndexError"]
  ELSE IF ~TurnMatches(d, i) THEN [st EXCEPT !.returned = i - 1]
  ELSE st

\* What the call ends with, from the loop's variables st at its end.
TaskResult(d, st) ==
  IF st.raised # "" THEN Fault(st.raised)
  ELSE IF st.returned # NotReturned
    THEN Divide(FromInt(st.returned), Len(d.turn_responses))
  ELSE Value(Inf)

task_process_rate(d) ==
  TaskResult(d, ForAllTurns("task_process_rate", d,
                            [raised |-> "", returned |-> NotReturned]))

(***************************************************************************)
(* average_turn_success_rate                                               *)
(***************************************************************************)
\* The loop's body: score counts the turns whose comparison succeeded.
AverageStep(d, i, st) ==
  IF ~HasLogEntry(d, i) THEN [st EXCEPT !.raised = "IndexError"]
  ELSE IF TurnMatches(d, i) THEN [st EXCEPT !.score = @ + 1]
  ELSE st

\* return score / len(df['turn_responses']), unless the loop raised.
ScoreOverTurns(d, raised, score) ==
  IF raised # "" THEN Fault(raised) ELSE Divide(score, Len(d.turn_responses))

AverageResult(d, st) == ScoreOverTurns(d, st.raised, FromInt(st.score))

average_turn_success_rate(d) ==
  AverageResult(d, ForAllTurns("average_turn_success_rate", d,
                               [raised |-> "", score |-> 0]))

(***************************************************************************)
(* soft_average_turn_success_rate                                          *)
(***************************************************************************)
\* last_incorrect_turn = float("inf"): no turn has been incorrect so far.
InfTurn == -1

\* The loop's body keeping the first incorrect turn instead of the last.
SoftStepKeepsFirst(d, i, st) ==
  IF ~HasLogEntry(d, i) THEN [st EXCEPT !.raised = "IndexError"]
  ELSE IF TurnMatches(d, i)
    THEN IF st.last = InfTurn \/ i - 1 < st.last
           THEN [st EXCEPT !.score = FloatAdd(@, One)]
           ELSE [st EXCEPT !.score =
                   FloatAdd(@, OneMinusExpNeg((i - 1) - st.last))]
  ELSE IF st.last = InfTurn THEN [st EXCEPT !.last = i - 1]
  ELSE st

\* The loop's body: score is the running float, last is last_incorrect_turn
\* (a turn_idx).
SoftStep(d, i, st) ==
  IF ~HasLogEntry(d, i) THEN [st EXCEPT !.raised = "IndexError"]
  ELSE IF TurnMatches(d, i)
    THEN IF st.last = InfTurn \/ i - 1 < st.last
           THEN [st EXCEPT !.score = FloatAdd(@, One)]
           ELSE [st EXCEPT !.score =
                   FloatAdd(@, OneMinusExpNeg((i - 1) - st.last))]
  ELSE [st EXCEPT !.last = i - 1]

SoftResult(d, st) == ScoreOverTurns(d, st.raised, st.score)

soft_average_turn_success_rate(d) ==
  SoftResult(d, ForAllTurns("soft_average_turn_success_rate", d,
                            [raised |-> "", score |-> Zero, last |-> InfTurn]))

(***************************************************************************)
(* The loops over the turns.                                               *)
(***************************************************************************)
\* The body of the loop over the turns of the function named loop.
TurnStep(loop, d, i, st) ==
  CASE loop = "average_num_steps"              -> NumStepsStep(d, i, st)
    [] loop = "average_num_tools"              -> NumToolsStep(d, i, st)
    [] loop = "apologetic"                     -> ApologeticStep(d, i, st)
    [] loop = "apologetic_rate"                -> ApologeticRateStep(d, i, st)
    [] loop = "no_func_call_rate"              -> NoFuncCallStep(d, i, st)
    [] loop = "num_tool_errors"                -> ToolErrorsStep(d, i, st)
    [] loop = "num_turn_with_errors"           -> TurnWithErrorsStep(d, i, st)
    [] loop = "check_api_state_mismatch"       -> MarkTurn(d, i, st)
    [] loop = "task_process_rate"              -> TaskStep(d, i, st)
    [] loop = "average_turn_success_rate"      -> AverageStep(d, i, st)
    [] loop = "soft_average_turn_success_rate" -> SoftStep(d, i, st)

\* The range lo .. hi is split in halves only to keep the evaluation
\* shallow: the turns are still taken in order.
ForTurns(loop, d, lo, hi, st) ==
  IF st.raised # "" \/ lo > hi THEN st
  ELSE IF lo = hi THEN TurnStep(loop, d, lo, st)
  ELSE LET mid == (lo + hi) \div 2
       IN  ForTurns(loop, d, mid + 1, hi, ForTurns(loop, d, lo, mid, st))

(***************************************************************************)
(* The state machine.                                                      *)
(***************************************************************************)
\* A call of a metric on the transcript: the metric named and what it gave.
AverageNumSteps ==
  /\ metric' = "average_num_steps"
  /\ result' = average_num_steps(df)
  /\ UNCHANGED df

AverageNumTools ==
  /\ metric' = "average_num_tools"
  /\ result' = average_num_tools(df)
  /\ UNCHANGED df

Apologetic ==
  /\ metric' = "apologetic"
  /\ result' = apologetic(df)
  /\ UNCHANGED df

ApologeticRate ==
  /\ metric' = "apologetic_rate"
  /\ result' = apologetic_rate(df)
  /\ UNCHANGED df

NoFuncCallRate ==
  /\ metric' = "no_func_call_rate"
  /\ result' = no_func_call_rate(df)
  /\ UNCHANGED df

NumToolErrors ==
  /\ metric' = "num_tool_errors"
  /\ result' = num_tool_errors(df)
  /\ UNCHANGED df

NumTurnWithErrors ==
  /\ metric' = "num_turn_with_errors"
  /\ result' = num_turn_with_errors(df)
  /\ UNCHANGED df

CheckApiStateMismatch ==
  /\ metric' = "check_api_state_mismatch"
  /\ result' = check_api_state_mismatch(df)
  /\ UNCHANGED df

ForceTerminated ==
  /\ metric' = "force_terminated"
  /\ result' = force_terminated(df)
  /\ UNCHANGED df

StateInconsistent ==
  /\ metric' = "state_inconsistent"
  /\ result' = state_inconsistent(df)
  /\ UNCHANGED df

ResponseInconsistent ==
  /\ metric' = "response_inconsistent"
  /\ result' = response_inconsistent(df)
  /\ UNCHANGED df

TaskProcessRate ==
  /\ metric' = "task_process_rate"
  /\ result' = task_process_rate(df)
  /\ UNCHANGED df

AverageTurnSuccessRate ==
  /\ metric' = "average_turn_success_rate"
  /\ result' = average_turn_success_rate(df)
  /\ UNCHANGED df

SoftAverageTurnSuccessRate ==
  /\ metric' = "soft_average_turn_success_rate"
  /\ result' = soft_average_turn_success_rate(df)
  /\ UNCHANGED df

NotCalled == [kind |-> "none"]

InitState ==
  /\ StateTranscripts \/ LongTranscripts
  /\ metric = "none"
  /\ result = NotCalled

NextState ==
  \/ CheckApiStateMismatch
  \/ TaskProcessRate
  \/ AverageTurnSuccessRate
  \/ SoftAverageTurnSuccessRate

SpecState == InitState /\ [][NextState]_vars

InitSteps ==
  /\ MessageTranscripts \/ CallTranscripts \/ ToolTranscripts
  /\ metric = "none"
  /\ result = NotCalled

NextSteps ==
  \/ Apologetic
  \/ ApologeticRate
  \/ NoFuncCallRate
  \/ NumToolErrors
  \/ NumTurnWithErrors

SpecSteps == InitSteps /\ [][NextSteps]_vars

Init ==
  /\ MixedTranscripts
  /\ metric = "none"
  /\ result = NotCalled

Next ==
  \/ AverageNumSteps
  \/ AverageNumTools
  \/ Apologetic
  \/ ApologeticRate
  \/ NoFuncCallRate
  \/ NumToolErrors
  \/ NumTurnWithErrors
  \/ CheckApiStateMismatch
  \/ ForceTerminated
  \/ StateInconsistent
  \/ ResponseInconsistent
  \/ TaskProcessRate
  \/ AverageTurnSuccessRate
  \/ SoftAverageTurnSuccessRate

Spec == Init /\ [][Next]_vars

(***************************************************************************)
(* Vocabulary of the properties below, stated on the transcript itself.    *)
(***************************************************************************)
NumTurns == Len(df.turn_responses)

WellFormedLog == Len(df.ground_truth_log) = NumTurns + 1

Eots(i) == df.turn_responses[i].end_of_turn_state

Truth(i) == df.ground_truth_log[i + 1]

\* The API names that are the class_name of an entry of some turn's
\* end_of_turn_state.
AppearingApis ==
  UNION { { s.class_name : s \in Range(Eots(i)) } : i \in 1..NumTurns }

\* The positions turn i's prediction and ground truth are compared at.
Positions(i) == 1..Min(Len(Eots(i)), Len(Truth(i)))

UnequalAt(i, j) == Eots(i)[j] # Truth(i)[j]

\* Some positional comparison of turn i fails.
SomeUnequal(i) == \E j \in Positions(i) : UnequalAt(i, j)

Returned(name) == metric = name /\ result.kind = "value"

(***************************************************************************)
(* C1 (as claimed): on a transcript with at least one turn, every API of   *)
(* API_LIST that is the class_name of no entry of any turn's               *)
(* end_of_turn_state is reported NaN by check_api_state_mismatch, whatever *)
(* ground_truth_log holds.                                                 *)
(***************************************************************************)
C1_AbsentApiIsNaN ==
  (metric = "check_api_state_mismatch" /\ NumTurns >= 1) =>
    /\ result.kind = "value"
    /\ \A k \in 1..Len(API_LIST) :
         API_LIST[k] \notin AppearingApis => result.series[k] = NaN

(***************************************************************************)
(* C2 (as claimed, for transcripts of at least one turn): when             *)
(* len(ground_truth_log) # len(turn_responses) + 1 the call returns, every *)
(* API appearing in some turn's end_of_turn_state is reported True and     *)
(* every other API NaN.                                                    *)
(***************************************************************************)
C2_LengthViolationMarksAppearing ==
  (metric = "check_api_state_mismatch" /\ NumTurns >= 1 /\ ~WellFormedLog) =>
    /\ result.kind = "value"
    /\ \A k \in 1..Len(API_LIST) :
         result.series[k] =
           IF API_LIST[k] \in AppearingApis THEN PyTrue ELSE NaN

(***************************************************************************)
(* C3 (as claimed, in its weakest reading): on a well-formed transcript an *)
(* API appearing in some turn's end_of_turn_state is reported True when    *)
(* some positional pair is unequal with both records carrying its name,    *)
(* and False when no unequal pair involves its name at all.                *)
(***************************************************************************)
C3_MismatchIffUnequalPair ==
  (metric = "check_api_state_mismatch" /\ NumTurns >= 1 /\ WellFormedLog) =>
    /\ result.kind = "value"
    /\ \A k \in 1..Len(API_LIST) :
         LET api == API_LIST[k]
         IN  api \in AppearingApis =>
               /\ (\E i \in 1..NumTurns : \E j \in Positions(i) :
                     /\ UnequalAt(i, j)
                     /\ Eots(i)[j].class_name = api
                     /\ Truth(i)[j].class_name = api)
                  => result.series[k] = PyTrue
               /\ (\A i \in 1..NumTurns : \A j \in Positions(i) :
                     UnequalAt(i, j) =>
                       /\ Eots(i)[j].class_name # api
                       /\ Truth(i)[j].class_name # api)
                  => result.series[k] = PyFalse

(***************************************************************************)
(* C4: on a well-formed transcript of n >= 1 turns task_process_rate       *)
(* returns infinity when every positional comparison of every turn         *)
(* succeeds, and otherwise k / n for the zero-based index k of the first   *)
(* turn with an unequal pair, a value in [0, 1).                           *)
(***************************************************************************)
C4_TaskProcessRate ==
  (metric = "task_process_rate" /\ NumTurns >= 1 /\ WellFormedLog) =>
    LET bad == { i \in 1..NumTurns : SomeUnequal(i) }
    IN  /\ result.kind = "value"
        /\ (bad = {}) <=> (result.value = Inf)
        /\ bad # {} =>
             LET first == CHOOSE i \in bad : \A o \in bad : i <= o
             IN  /\ result.value = Quot(FromInt(first - 1), NumTurns)
                 /\ Leq(Zero, result.value.num)
                 /\ Less(result.value.num, FromInt(result.value.den))

\* task_process_rate has returned k / n with k > 0 on a transcript whose
\* failing turn is followed by another turn.
C4_Witness ==
  /\ Returned("task_process_rate") /\ WellFormedLog
  /\ NumTurns >= 2
  /\ ~SomeUnequal(1) /\ SomeUnequal(2)
  /\ result.value = Quot(FromInt(1), NumTurns)

(***************************************************************************)
(* C5 (as claimed, on well-formed transcripts): average_turn_success_rate  *)
(* is the number of turns whose end_of_turn_state equals the ground-truth  *)
(* snapshot of the turn, divided by the number of turns; a turn whose two  *)
(* snapshots differ, in length too, is no success.                         *)
(***************************************************************************)
C5_AverageCountsExactMatches ==
  (metric = "average_turn_success_rate" /\ NumTurns >= 1 /\ WellFormedLog) =>
    result = Value(Quot(FromInt(Cardinality({ i \in 1..NumTurns :
                                               Eots(i) = Truth(i) })),
                        NumTurns))

(***************************************************************************)
(* C6.  A turn is correct when every positional comparison of it succeeds. *)
(* Its distance is the number of turns back to the most recent incorrect   *)
(* turn before it, when it is correct and there is one, and 0 otherwise; a *)
(* turn with a distance is called discounted.                              *)
(***************************************************************************)
Latest(turns) == CHOOSE j \in turns : \A o \in turns : o <= j

DistanceTo(i, correct, before) ==
  IF ~correct \/ before = {} THEN 0 ELSE i - Latest(before)

\* The contribution of a turn as the claim gives it.
ClaimedContribution(correct, distance) ==
  IF ~correct THEN Zero
  ELSE IF distance = 0 THEN One
  ELSE OneMinusExpNeg(distance)

FactOf(i, correct, distance) ==
  [turn |-> i, correct |-> correct, distance |-> distance,
   contribution |-> ClaimedContribution(correct, distance)]

\* One record per turn of the transcript.
TurnFacts ==
  { FactOf(i, ~SomeUnequal(i),
           DistanceTo(i, ~SomeUnequal(i),
                      { j \in 1..(i - 1) : SomeUnequal(j) }))
    : i \in 1..NumTurns }

FactAt(facts, i) == CHOOSE t \in facts : t.turn = i

RECURSIVE ContributionsFrom(_, _, _, _)
\* acc.sum plus the contributions of the turns lo .. hi, added in turn
\* order; acc.last is the last turn whose contribution acc.sum holds.
ContributionsFrom(facts, lo, hi, acc) ==
  IF acc.last >= hi THEN acc
  ELSE IF lo = hi
    THEN [sum |-> FloatAdd(acc.sum, FactAt(facts, lo).contribution),
          last |-> lo]
  ELSE LET mid == (lo + hi) \div 2
       IN  ContributionsFrom(facts, mid + 1, hi,
                             ContributionsFrom(facts, lo, mid, acc))

\* The contributions summed in turn order.
ContributionSum(facts) ==
  ContributionsFrom(facts, 1, NumTurns, [sum |-> Zero, last |-> 0]).sum

Discounted(facts) == { t \in facts : t.distance > 0 }

CorrectCount(facts) == FromInt(Cardinality({ t \in facts : t.correct }))

\* The least distance at which 1 - np.exp(-d) is 1.0 in float64.
SaturationDistance == Len(OneMinusExpTable) + 1

\* ground_truth_log has the entry every turn is compared with.
LogCoversTurns == Len(df.ground_truth_log) >= NumTurns + 1

SoftCase == metric = "soft_average_turn_success_rate" /\ NumTurns >= 1

\* What C6 says of the result: the contributions summed and divided by the
\* turn count, at most average_turn_success_rate, and equal to it exactly
\* when no correct turn follows an incorrect one.
SoftResultAsClaimed(facts, discounted, count) ==
  /\ result = Value(Quot(ContributionSum(facts), NumTurns))
  /\ average_turn_success_rate(df) = Value(Quot(count, NumTurns))
  /\ Leq(result.value.num, count)
  /\ (result.value.num = count) <=> (discounted = {})
  /\ (\A t \in facts : t.correct) => result.value.num = FromInt(NumTurns)

\* The contribution of a discounted turn lies strictly between 0 and 1 and
\* strictly increases with the distance.
DiscountStrict(discounted) ==
  /\ \A t \in discounted :
       Less(Zero, t.contribution) /\ Less(t.contribution, One)
  /\ \A t, u \in discounted :
       /\ t.distance = u.distance => t.contribution = u.contribution
       /\ t.distance < u.distance => Less(t.contribution, u.contribution)

\* The same in float64: strict below the saturation distance only.
DiscountFloat(discounted) ==
  /\ \A t \in discounted :
       /\ Less(Zero, t.contribution) /\ Leq(t.contribution, One)
       /\ (t.contribution = One) <=> (t.distance >= SaturationDistance)
  /\ \A t, u \in discounted :
       /\ t.distance = u.distance => t.contribution = u.contribution
       /\ t.distance < u.distance =>
            /\ Leq(t.contribution, u.contribution)
            /\ t.distance < SaturationDistance =>
                 Less(t.contribution, u.contribution)

ClaimedOfSoft(facts) ==
  /\ SoftResultAsClaimed(facts, Discounted(facts), CorrectCount(facts))
  /\ DiscountStrict(Discounted(facts))

AmendedOfSoft(facts) ==
  /\ SoftResultAsClaimed(facts, Discounted(facts), CorrectCount(facts))
  /\ DiscountFloat(Discounted(facts))

SaturatedAfterShort(facts) ==
  /\ \E t, u \in Discounted(facts) :
       t.distance = 1 /\ u.distance >= SaturationDistance
  /\ Less(result.value.num, CorrectCount(facts))

\* Some correct turn has two incorrect turns before it, and its distance is
\* the one to the later of them.
MeasuredFromLatest(facts) ==
  \E t \in Discounted(facts) :
    \E a, b \in 1..(t.turn - 1) :
      /\ a < b /\ SomeUnequal(a) /\ SomeUnequal(b)
      /\ t.distance = t.turn - b

\* Both rates raise IndexError.
BothRaiseIndexError ==
  /\ result = Fault("IndexError")
  /\ average_turn_success_rate(df) = Fault("IndexError")

(***************************************************************************)
(* C6 (as claimed): on every transcript with at least one turn the call    *)
(* returns; the contribution of a correct turn that follows an incorrect   *)
(* one depends on its distance to the most recent of them alone, lies      *)
(* strictly between 0 and 1 and strictly increases with the distance; the  *)
(* result is the sum of the contributions over the turn count, at most     *)
(* average_turn_success_rate and equal to it exactly when no correct turn  *)
(* follows an incorrect one.                                               *)
(***************************************************************************)
C6_DiscountStrictlyBelowOne ==
  SoftCase => (result.kind = "value" /\ ClaimedOfSoft(TurnFacts))

(***************************************************************************)
(* C6 (amended): on a transcript with at least one turn whose              *)
(* ground_truth_log has the entry of every turn, as claimed, except that   *)
(* the contribution, computed in float64, is greater than 0 and at most 1, *)
(* is below 1 and strictly increasing only up to distance 37, and is       *)
(* exactly 1.0 from distance 38 on.  When the log lacks the entry of some  *)
(* turn, the call raises IndexError, and so does                           *)
(* average_turn_success_rate.                                              *)
(***************************************************************************)
C6_DiscountSaturates ==
  SoftCase =>
    IF LogCoversTurns THEN AmendedOfSoft(TurnFacts) ELSE BothRaiseIndexError

\* soft_average_turn_success_rate has returned on a transcript with two
\* incorrect turns ahead of correct ones, the distances counted from the
\* later of the two, one of them at a distance where the discount has
\* saturated, and the result is below the plain average.
C6_Witness ==
  /\ Returned("soft_average_turn_success_rate") /\ LogCoversTurns
  /\ SaturatedAfterShort(TurnFacts)
  /\ MeasuredFromLatest(TurnFacts)

(***************************************************************************)
(* Vocabulary of the step-level properties.                                *)
(***************************************************************************)
Steps(i) == df.turn_responses[i].step_responses

\* The assistant message of the final step of turn i.
ClosingMessage(i) == Steps(i)[Len(Steps(i))].assistant_response.content

\* Turn i is apologetic as C7 defines it: its closing message is null, or
\* contains a listed phrase, case-insensitively.
ClosingIsApologetic(i) ==
  \/ ClosingMessage(i).kind = "None"
  \/ /\ ClosingMessage(i).kind = "str"
     /\ \E p \in 1..Len(APOLOGETIC_SUBSTRING) :
          Contains(Lower(ClosingMessage(i).chars),
                   Lower(APOLOGETIC_SUBSTRING[p]))

ApologeticTurns == { i \in 1..NumTurns : ClosingIsApologetic(i) }

(***************************************************************************)
(* C7 (as claimed): on a transcript with at least one turn apologetic      *)
(* returns True exactly when some turn's closing message is null or        *)
(* contains a listed phrase, apologetic_rate is the number of such turns   *)
(* over the number of turns, and apologetic is True exactly when           *)
(* apologetic_rate is positive.                                            *)
(***************************************************************************)
C7_NullClosingMessageIsApologetic ==
  /\ (metric = "apologetic" /\ NumTurns >= 1) =>
       /\ result.kind = "value"
       /\ (result.bool = PyTrue) <=> (ApologeticTurns # {})
       /\ (result.bool = PyTrue) <=>
            Less(Zero, apologetic_rate(df).value.num)
  /\ (metric = "apologetic_rate" /\ NumTurns >= 1) =>
       result = Value(Quot(FromInt(Cardinality(ApologeticTurns)), NumTurns))

\* Some step of turn i carries the handler_response marker.
TurnHasCall(i) ==
  \E j \in 1..Len(Steps(i)) : "handler_response" \in DOMAIN Steps(i)[j]

(***************************************************************************)
(* C8 (as claimed): on a transcript with at least one turn                 *)
(* no_func_call_rate is the number of turns none of whose steps carries    *)
(* handler_response, divided by the number of turns, hence at most 1.      *)
(***************************************************************************)
C8_NoFuncCallRateIsProportionOfTurns ==
  (metric = "no_func_call_rate" /\ NumTurns >= 1) =>
    /\ result.kind = "value"
    /\ Leq(result.value.num, FromInt(result.value.den))
    /\ result = Value(Quot(FromInt(Cardinality({ i \in 1..NumTurns :
                                                  ~TurnHasCall(i) })),
                           NumTurns))

\* The tool-response entries of the transcript: turn, step, position.
Entries ==
  UNION { UNION { { <<i, j, k>> : k \in 1..Len(Steps(i)[j].tool_response) }
                  : j \in 1..Len(Steps(i)) }
          : i \in 1..NumTurns }

Parsed(e) == JsonLoads(Steps(e[1])[e[2]].tool_response[e[3]].content)

\* The error predicate of C9: the content parses, to an object, and the
\* object has the key error.
IsErrorEntry(e) ==
  /\ Parsed(e).raised = ""
  /\ Parsed(e).type = "dict"
  /\ "error" \in Parsed(e).keys

ErrorEntries == { e \in Entries : IsErrorEntry(e) }

TurnsWithErrors == { e[1] : e \in ErrorEntries }

(***************************************************************************)
(* C9: num_tool_errors is the number of tool-response entries whose        *)
(* content parses as JSON to an object with the key error, and             *)
(* num_turn_with_errors the number of turns holding such an entry; neither *)
(* faults on content that does not parse or is no object.  So              *)
(* num_turn_with_errors is at most num_tool_errors, at most the number of  *)
(* turns, and 0 exactly when num_tool_errors is 0.                         *)
(***************************************************************************)
C9_ToolErrorCounts ==
  /\ metric = "num_tool_errors" =>
       result = IntValue(Cardinality(ErrorEntries))
  /\ metric = "num_turn_with_errors" =>
       /\ result = IntValue(Cardinality(TurnsWithErrors))
       /\ num_tool_errors(df).kind = "value"
       /\ result.int <= num_tool_errors(df).int
       /\ result.int <= NumTurns
       /\ (result.int = 0) <=> (num_tool_errors(df).int = 0)

\* num_turn_with_errors has returned 1 on a transcript with two error
\* entries in one turn, next to an entry that is no object and, in another
\* turn, one that does not parse.
C9_Witness ==
  /\ Returned("num_turn_with_errors")
  /\ result.int = 1
  /\ num_tool_errors(df).int = 2
  /\ \E e \in Entries : Parsed(e).raised # ""
  /\ \E e \in Entries : Parsed(e).raised = "" /\ Parsed(e).type # "dict"

\* The metrics that divide by the number of turns.
RateMetrics ==
  { "apologetic_rate", "no_func_call_rate", "average_turn_success_rate",
    "soft_average_turn_success_rate" }

\* A call has ended: with a fault, or with the whole of its answer.
HasEnded == result.kind = "fault" \/ result.kind = "value"

(***************************************************************************)
(* C10: on a transcript of zero turns apologetic_rate, no_func_call_rate,  *)
(* average_turn_success_rate and soft_average_turn_success_rate fault with *)
(* ZeroDivisionError; every call of a metric ends with a fault or with an  *)
(* answer, and no call changes the transcript.                             *)
(***************************************************************************)
C10_ZeroTurnsFault ==
  /\ [](/\ (NumTurns = 0 /\ metric \in RateMetrics) =>
             result = Fault("ZeroDivisionError")
        /\ metric # "none" => HasEnded)
  /\ [][df' = df]_vars

\* A rate metric has been called on the transcript of zero turns.
C10_Witness ==
  /\ NumTurns = 0
  /\ metric = "soft_average_turn_success_rate"
  /\ result.kind = "fault"

=============================================================================
